---- MODULE Spec2Model ----
(***************************************************************************)
(* Model of wan_manager.py: a menu-driven controller that shapes two WAN   *)
(* interfaces through tc (htb + netem) and ip link.                        *)
(*                                                                         *)
(* The shaping backend (tc / ip) is outside the repository.  It is modelled*)
(* as the abstract store the commands address: a root htb qdisc, the class *)
(* 1:10 with its rate, the netem qdisc 10: with delay/jitter/loss, and the *)
(* link state.  A listing prints the values as they were given.  A command *)
(* output is a sequence of lines, a line is a sequence of tokens.          *)
(***************************************************************************)
EXTENDS Naturals, Sequences, FiniteSets, TLC

VARIABLES
  be,    \* the shaping backend: interface -> hierarchy, values and link state
  last,  \* the operation that ran last: its name and arguments, the backend
         \* before it, the commands it issued, and the run of identical calls
         \* it ends (their number n and the backend before the first of them)
  rd,    \* a listing handed to the State Reader token by token, and what the
         \* reader made of it
  ses    \* two operator sessions running a Mutator operation each on the
         \* primary interface, command by command

vars == <<be, last, rd, ses>>

\* ---------------------------------------------------------------- constants
WAN1 == "ens19"

WAN2 == "ens20"

Ifaces == {WAN1, WAN2}

DEFAULT_PARAMS ==
  [i \in Ifaces |->
     IF i = WAN1
     THEN [bandwidth |-> "100mbit", delay |-> "0ms", jitter |-> "0ms", loss |-> "0%"]
     ELSE [bandwidth |-> "50mbit", delay |-> "30ms", jitter |-> "0ms", loss |-> "0%"]]

\* Python's None, for an optional argument that was not given
None == "None"

\* value of a field the backend does not hold
Absent == "-"

\* tokens of the model's alphabet for which str.endswith('ms') is true
EndsWithMs(tok) == tok \in {"0ms", "1ms", "10ms", "30ms", "200ms"}

\* tokens of the model's alphabet for which str.startswith('loss') is true
StartsWithLoss(tok) == tok \in {"loss"}

\* ------------------------------------------------------------ the backend
\* one interface with no shaping hierarchy and the link up
CleanIface ==
  [htb |-> FALSE, cls |-> FALSE, rate |-> Absent,
   netem |-> FALSE, delay |-> Absent, jitter |-> Absent, loss |-> Absent,
   link |-> "UP"]

Cmd(kind, dev, args) == [kind |-> kind, dev |-> dev, args |-> args]

\* tc qdisc show dev <dev>
QdiscShow(s) ==
  IF ~s.htb THEN << <<"qdisc", "noqueue", "0:", "root">> >>
  ELSE << <<"qdisc", "htb", "1:", "root", "default", "0x10">> >>
       \o (IF s.netem
           THEN << <<"qdisc", "netem", "10:", "parent", "1:10", "limit", "1000",
                     "delay", s.delay, s.jitter, "loss", s.loss>> >>
           ELSE << >>)

\* tc class show dev <dev>
ClassShow(s) ==
  IF s.cls
  THEN << <<"class", "htb", "1:10", "root", "prio", "0",
            "rate", s.rate, "ceil", s.rate>> >>
  ELSE << >>

\* ip link show <dev>
LinkShow(s) == << <<"2:", "dev:", "mtu", "1500", "state", s.link, "mode", "DEFAULT">> >>

\* what the backend does with one command on one interface:
\* the new interface state, whether the command succeeded, what it listed
Backend(s, cmd) ==
  CASE cmd.kind = "qdisc_show" -> [s |-> s, ok |-> TRUE, text |-> QdiscShow(s)]
    [] cmd.kind = "class_show" -> [s |-> s, ok |-> TRUE, text |-> ClassShow(s)]
    [] cmd.kind = "link_show"  -> [s |-> s, ok |-> TRUE, text |-> LinkShow(s)]
    [] cmd.kind = "qdisc_del_root" ->
         IF s.htb
         THEN [s |-> [CleanIface EXCEPT !.link = s.link], ok |-> TRUE, text |-> << >>]
         ELSE [s |-> s, ok |-> FALSE, text |-> << >>]
    [] cmd.kind = "qdisc_add_root" ->
         IF ~s.htb
         THEN [s |-> [s EXCEPT !.htb = TRUE], ok |-> TRUE, text |-> << >>]
         ELSE [s |-> s, ok |-> FALSE, text |-> << >>]
    [] cmd.kind = "class_add" ->
         IF s.htb /\ ~s.cls
         THEN [s |-> [s EXCEPT !.cls = TRUE, !.rate = cmd.args[1]],
               ok |-> TRUE, text |-> << >>]
         ELSE [s |-> s, ok |-> FALSE, text |-> << >>]
    [] cmd.kind = "class_change" ->
         IF s.cls
         THEN [s |-> [s EXCEPT !.rate = cmd.args[1]], ok |-> TRUE, text |-> << >>]
         ELSE [s |-> s, ok |-> FALSE, text |-> << >>]
    [] cmd.kind = "netem_add" ->
         IF s.cls /\ ~s.netem
         THEN [s |-> [s EXCEPT !.netem = TRUE, !.delay = cmd.args[1],
                               !.jitter = cmd.args[2], !.loss = cmd.args[3]],
               ok |-> TRUE, text |-> << >>]
         ELSE [s |-> s, ok |-> FALSE, text |-> << >>]
    [] cmd.kind = "netem_change" ->
         IF s.netem
         THEN [s |-> [s EXCEPT !.delay = cmd.args[1],
                               !.jitter = cmd.args[2], !.loss = cmd.args[3]],
               ok |-> TRUE, text |-> << >>]
         ELSE [s |-> s, ok |-> FALSE, text |-> << >>]
    [] cmd.kind = "link_set" ->
         [s |-> [s EXCEPT !.link = IF cmd.args[1] = "up" THEN "UP" ELSE "DOWN"],
          ok |-> TRUE, text |-> << >>]

IsQuery(cmd) == cmd.kind \in {"qdisc_show", "class_show", "link_show"}

\* ------------------------------------------------------------ run_command
\* A world w is the backend, the commands issued so far by the running
\* operation (each with its outcome), the text env a succeeding non-query
\* command prints (tc prints nothing or a warning line), the kinds of command
\* that fail for a reason of the backend's own (fail), and the value the last
\* call returned.
\* run_command returns None for a failed command, else the stripped output.
PyNone == [ok |-> FALSE, text |-> << >>]

\* statement sequencing: e is evaluated once and its value handed to F
Then(e, F(_)) == CHOOSE v \in {F(x) : x \in {e}} : TRUE

\* subprocess.run for command cmd in world w: what the backend answers
Outcome(w, cmd) ==
  IF cmd.kind \in w.fail
  THEN [s |-> w.be[cmd.dev], ok |-> FALSE, text |-> << >>]
  ELSE Backend(w.be[cmd.dev], cmd)

\* the world after the backend answered r to command cmd
Completed(w, cmd, r) ==
  [be  |-> [w.be EXCEPT ![cmd.dev] = r.s],
   log |-> Append(w.log, [kind |-> cmd.kind, dev |-> cmd.dev, args |-> cmd.args,
                          ok |-> r.ok]),
   env |-> w.env,
   fail |-> w.fail,
   ret |-> IF ~r.ok THEN PyNone
           ELSE [ok |-> TRUE, text |-> IF IsQuery(cmd) THEN r.text ELSE w.env]]

run_command(w, cmd) ==
  Then(w, LAMBDA world : Then(cmd, LAMBDA command :
  Then(Outcome(world, command), LAMBDA r : Completed(world, command, r))))

\* the call of function fn for an interface, noted among the commands
Enter(w, fn, interface) ==
  [w EXCEPT !.log = Append(w.log, [kind |-> fn, dev |-> interface, args |-> << >>,
                                   ok |-> TRUE])]

\* subprocess.call(...): the exit status is discarded
subprocess_call(w, cmd) == [run_command(w, cmd) EXCEPT !.ret = PyNone]

\* Python's "not output" for Optional[str]: None and the empty string
Not(out) == ~out.ok \/ out.text = << >>

\* ------------------------------------------------------------ State Reader
ZeroParams == [delay |-> "0ms", jitter |-> "0ms", loss |-> "0%", err |-> FALSE]

\* a dict key that was never assigned
Unset == "unset"

\* the parser raised IndexError (parts[i+1] past the end of the line)
ParseError == [delay |-> Unset, jitter |-> Unset, loss |-> Unset, err |-> TRUE]

\* 'netem' in line
HasNetem(line) == \E k \in 1..Len(line) : line[k] = "netem"

\* the while loop of get_netem_params over the tokens of the netem line;
\* i is Python's i + 1
RECURSIVE ScanNetem(_, _, _)
ScanNetem(parts, i, params) ==
  IF i > Len(parts) THEN params
  ELSE IF parts[i] = "delay"
       THEN IF i + 1 > Len(parts) THEN ParseError
            ELSE IF i + 2 <= Len(parts) /\ EndsWithMs(parts[i + 2])
                    /\ ~StartsWithLoss(parts[i + 2])
                 THEN ScanNetem(parts, i + 3,
                                [params EXCEPT !.delay = parts[i + 1],
                                               !.jitter = parts[i + 2]])
                 ELSE ScanNetem(parts, i + 2, [params EXCEPT !.delay = parts[i + 1]])
       ELSE IF parts[i] = "loss"
            THEN IF i + 1 > Len(parts) THEN ParseError
                 ELSE ScanNetem(parts, i + 2, [params EXCEPT !.loss = parts[i + 1]])
            ELSE ScanNetem(parts, i + 1, params)

\* params.setdefault(...) for the three keys
SetDefaults(params) ==
  IF params.err THEN params
  ELSE [delay  |-> IF params.delay = Unset THEN "0ms" ELSE params.delay,
        jitter |-> IF params.jitter = Unset THEN "0ms" ELSE params.jitter,
        loss   |-> IF params.loss = Unset THEN "0%" ELSE params.loss,
        err    |-> FALSE]

\* the body of get_netem_params on the output of the listing
ParseNetem(output) ==
  IF Not(output) THEN ZeroParams
  ELSE LET lines == output.text
           hits  == {k \in 1..Len(lines) : HasNetem(lines[k])}
       IN IF hits = {} THEN ZeroParams
          ELSE LET k == CHOOSE m \in hits : \A n \in hits : m <= n
               IN SetDefaults(ScanNetem(lines[k], 1,
                     [delay |-> Unset, jitter |-> Unset, loss |-> Unset, err |-> FALSE]))

get_netem_params(w, interface) ==
  Then(run_command(w, Cmd("qdisc_show", interface, << >>)),
       LAMBDA w1 : [w1 EXCEPT !.ret = ParseNetem(w1.ret)])

\* 'class htb 1:10' in line
HasClass110(line) ==
  \E k \in 1..Len(line) :
     k + 2 <= Len(line) /\ line[k] = "class" /\ line[k + 1] = "htb" /\ line[k + 2] = "1:10"

RateError == "IndexError"

\* the inner for loop of get_htb_rate on one matching line: the token after the
\* first 'rate', Unset when the line has no 'rate' token
RateOfLine(parts) ==
  LET hits == {k \in 1..Len(parts) : parts[k] = "rate"}
  IN IF hits = {} THEN Unset
     ELSE LET k == CHOOSE m \in hits : \A n \in hits : m <= n
          IN IF k + 1 > Len(parts) THEN RateError ELSE parts[k + 1]

\* the for loop of get_htb_rate over the lines, from line k on
RECURSIVE ScanClass(_, _)
ScanClass(lines, k) ==
  IF k > Len(lines) THEN "no limit"
  ELSE IF HasClass110(lines[k]) /\ RateOfLine(lines[k]) # Unset
       THEN RateOfLine(lines[k])
       ELSE ScanClass(lines, k + 1)

ParseRate(output) == IF Not(output) THEN "no limit" ELSE ScanClass(output.text, 1)

get_htb_rate(w, interface) ==
  Then(run_command(w, Cmd("class_show", interface, << >>)),
       LAMBDA w1 : [w1 EXCEPT !.ret = ParseRate(w1.ret)])

\* 'state X' in output
HasState(output, x) ==
  \E n \in 1..Len(output.text) :
     \E k \in 1..Len(output.text[n]) :
        /\ k + 1 <= Len(output.text[n])
        /\ output.text[n][k] = "state"
        /\ output.text[n][k + 1] = x

\* variant of get_interface_status that takes a failed query for a link down
ParseStatus_down_on_failure(output) ==
  IF Not(output) THEN "DOWN"
  ELSE IF HasState(output, "UP") THEN "UP"
       ELSE IF HasState(output, "DOWN") THEN "DOWN" ELSE "UNKNOWN"

ParseStatus(output) ==
  IF Not(output) THEN "UNKNOWN"
  ELSE IF HasState(output, "UP") THEN "UP"
       ELSE IF HasState(output, "DOWN") THEN "DOWN" ELSE "UNKNOWN"

get_interface_status(w, interface) ==
  Then(run_command(w, Cmd("link_show", interface, << >>)),
       LAMBDA w1 : [w1 EXCEPT !.ret = ParseStatus(w1.ret)])

\* ------------------------------------------------------- Idempotent Mutator
\* variant of setup_qdiscs that does not delete the existing hierarchy first
setup_qdiscs_no_delete(w, interface, bandwidth, delay, jitter, loss) ==
  LET w2 == run_command(w, Cmd("qdisc_add_root", interface, << >>))
      w3 == run_command(w2, Cmd("class_add", interface, <<bandwidth>>))
      w4 == run_command(w3, Cmd("netem_add", interface, <<delay, jitter, loss>>))
  IN [w4 EXCEPT !.ret = PyNone]

setup_qdiscs(w, interface, bandwidth, delay, jitter, loss) ==
  LET w1 == subprocess_call(w, Cmd("qdisc_del_root", interface, << >>))
      w2 == run_command(w1, Cmd("qdisc_add_root", interface, << >>))
      w3 == run_command(w2, Cmd("class_add", interface, <<bandwidth>>))
      w4 == run_command(w3, Cmd("netem_add", interface, <<delay, jitter, loss>>))
  IN [w4 EXCEPT !.ret = PyNone]

\* Python's "x or y" on Optional[str]
Or(x, y) == IF x = None \/ x = "" THEN y ELSE x

\* variant of set_netem whose rebuild always takes the default bandwidth
set_netem_default_rate(w, interface, delay, jitter, loss) ==
  LET w1 == get_netem_params(Enter(w, "set_netem", interface), interface)
      current == w1.ret
      d == Or(delay, current.delay)
      j == Or(jitter, current.jitter)
      l == Or(loss, current.loss)
      w2 == run_command(w1, Cmd("netem_change", interface, <<d, j, l>>))
  IN IF Not(w2.ret)
     THEN setup_qdiscs(w2, interface, DEFAULT_PARAMS[interface].bandwidth, d, j, l)
     ELSE [w2 EXCEPT !.ret = PyNone]

set_netem(w, interface, delay, jitter, loss) ==
  LET w1 == get_netem_params(Enter(w, "set_netem", interface), interface)
      current == w1.ret
      d == Or(delay, current.delay)
      j == Or(jitter, current.jitter)
      l == Or(loss, current.loss)
      w2 == run_command(w1, Cmd("netem_change", interface, <<d, j, l>>))
  IN IF Not(w2.ret)
     THEN LET w3 == get_htb_rate(w2, interface)
              current_rate == w3.ret
              bandwidth == IF current_rate # "no limit" THEN current_rate
                           ELSE DEFAULT_PARAMS[interface].bandwidth
          IN setup_qdiscs(w3, interface, bandwidth, d, j, l)
     ELSE [w2 EXCEPT !.ret = PyNone]

set_htb_rate(w, interface, rate) ==
  LET w1 == run_command(Enter(w, "set_htb_rate", interface),
                        Cmd("class_change", interface, <<rate>>))
  IN IF Not(w1.ret)
     THEN LET w2 == get_netem_params(w1, interface)
              current_netem == w2.ret
          IN setup_qdiscs(w2, interface, rate, current_netem.delay,
                          current_netem.jitter, current_netem.loss)
     ELSE [w1 EXCEPT !.ret = PyNone]

set_interface_status(w, interface, state) ==
  [run_command(Enter(w, "set_interface_status", interface),
               Cmd("link_set", interface, <<state>>)) EXCEPT !.ret = PyNone]

\* ------------------------------------------------------------ Toggle Engine
\* variant of toggle_latency_wan1 with the two targets swapped
toggle_latency_wan1_swapped(w) ==
  LET w1 == get_netem_params(w, WAN1)
      current == w1.ret
      new_delay == IF current.delay = "0ms" THEN "0ms" ELSE "200ms"
  IN set_netem(w1, WAN1, new_delay, DEFAULT_PARAMS[WAN1].jitter, DEFAULT_PARAMS[WAN1].loss)

toggle_latency_wan1(w) ==
  LET w1 == get_netem_params(w, WAN1)
      current == w1.ret
      new_delay == IF current.delay = "0ms" THEN "200ms" ELSE "0ms"
  IN set_netem(w1, WAN1, new_delay, DEFAULT_PARAMS[WAN1].jitter, DEFAULT_PARAMS[WAN1].loss)

\* variant of toggle_packet_loss_wan2 that hands the primary interface to
\* set_netem
toggle_packet_loss_wan2_on_primary(w) ==
  LET w1 == get_netem_params(w, WAN2)
      current == w1.ret
      new_loss == IF current.loss = "0%" THEN "5%" ELSE "0%"
  IN set_netem(w1, WAN1, DEFAULT_PARAMS[WAN2].delay, current.jitter, new_loss)

\* variant of toggle_packet_loss_wan2 that resets the jitter to its default
toggle_packet_loss_wan2_default_jitter(w) ==
  LET w1 == get_netem_params(w, WAN2)
      current == w1.ret
      new_loss == IF current.loss = "0%" THEN "5%" ELSE "0%"
  IN set_netem(w1, WAN2, DEFAULT_PARAMS[WAN2].delay, DEFAULT_PARAMS[WAN2].jitter, new_loss)

toggle_packet_loss_wan2(w) ==
  LET w1 == get_netem_params(w, WAN2)
      current == w1.ret
      new_loss == IF current.loss = "0%" THEN "5%" ELSE "0%"
  IN set_netem(w1, WAN2, DEFAULT_PARAMS[WAN2].delay, current.jitter, new_loss)

\* variant of toggle_jitter_wan2 that sends every jitter but 10ms to 10ms
toggle_jitter_wan2_high_first(w) ==
  LET w1 == get_netem_params(w, WAN2)
      current == w1.ret
      new_jitter == IF current.jitter = "10ms" THEN "1ms" ELSE "10ms"
  IN set_netem(w1, WAN2, DEFAULT_PARAMS[WAN2].delay, new_jitter, current.loss)

toggle_jitter_wan2(w) ==
  LET w1 == get_netem_params(w, WAN2)
      current == w1.ret
      new_jitter == IF current.jitter = "1ms" THEN "10ms" ELSE "1ms"
  IN set_netem(w1, WAN2, DEFAULT_PARAMS[WAN2].delay, new_jitter, current.loss)

\* variant of toggle_bandwidth_wan1 that reads the rate a second time before
\* it picks the target
toggle_bandwidth_wan1_reads_twice(w) ==
  LET w0 == get_htb_rate(w, WAN1)
      w1 == get_htb_rate(w0, WAN1)
      current_rate == w1.ret
      new_rate == IF current_rate = "100mbit" THEN "10mbit" ELSE "100mbit"
  IN set_htb_rate(w1, WAN1, new_rate)

\* variant of toggle_bandwidth_wan1 that sends every rate but 10mbit to 10mbit
toggle_bandwidth_wan1_reduced_first(w) ==
  LET w1 == get_htb_rate(w, WAN1)
      current_rate == w1.ret
      new_rate == IF current_rate = "10mbit" THEN "100mbit" ELSE "10mbit"
  IN set_htb_rate(w1, WAN1, new_rate)

toggle_bandwidth_wan1(w) ==
  LET w1 == get_htb_rate(w, WAN1)
      current_rate == w1.ret
      new_rate == IF current_rate = "100mbit" THEN "10mbit" ELSE "100mbit"
  IN set_htb_rate(w1, WAN1, new_rate)

\* variant of toggle_interface_status_wan2 that acts on the primary interface
toggle_interface_status_wan2_on_primary(w) ==
  LET w1 == get_interface_status(w, WAN1)
      current_status == w1.ret
      new_state == IF current_status = "UP" THEN "down" ELSE "up"
  IN set_interface_status(w1, WAN1, new_state)

\* variant of toggle_interface_status_wan2 that brings the link up only when
\* it reads DOWN
toggle_interface_status_wan2_up_on_down(w) ==
  LET w1 == get_interface_status(w, WAN2)
      current_status == w1.ret
      new_state == IF current_status = "DOWN" THEN "up" ELSE "down"
  IN set_interface_status(w1, WAN2, new_state)

toggle_interface_status_wan2(w) ==
  LET w1 == get_interface_status(w, WAN2)
      current_status == w1.ret
      new_state == IF current_status = "UP" THEN "down" ELSE "up"
  IN set_interface_status(w1, WAN2, new_state)

\* ------------------------------------------------------ Lifecycle Controller
\* one pass of the loop body of restore_defaults
RestoreOne(w, interface) ==
  set_interface_status(
    setup_qdiscs(w, interface, DEFAULT_PARAMS[interface].bandwidth,
                 DEFAULT_PARAMS[interface].delay, DEFAULT_PARAMS[interface].jitter,
                 DEFAULT_PARAMS[interface].loss),
    interface, "up")

\* variant of restore_defaults that rebuilds the primary interface only
restore_defaults_primary_only(w) == RestoreOne(w, WAN1)

restore_defaults(w) == RestoreOne(RestoreOne(w, WAN1), WAN2)

\* variant of the loop body of clean_up that gives up on an interface whose
\* hierarchy could not be deleted
CleanOne_stops_on_failure(w, interface) ==
  LET w1 == run_command(w, Cmd("qdisc_del_root", interface, << >>))
  IN IF ~w1.ret.ok THEN [w1 EXCEPT !.ret = PyNone]
     ELSE set_interface_status(w1, interface, "up")

\* one pass of the loop body of clean_up
CleanOne(w, interface) ==
  set_interface_status(subprocess_call(w, Cmd("qdisc_del_root", interface, << >>)),
                       interface, "up")

clean_up(w) == CleanOne(CleanOne(w, WAN1), WAN2)

\* variant of show_status that brings the secondary link up before it reads
show_status_brings_link_up(w) ==
  LET u == set_interface_status(w, WAN2, "up")
      a == get_interface_status(u, WAN1)
      b == get_interface_status(a, WAN2)
      c == get_htb_rate(b, WAN1)
      d == get_htb_rate(c, WAN2)
      e == get_netem_params(d, WAN1)
      f == get_netem_params(e, WAN2)
  IN [f EXCEPT !.ret =
        [i \in Ifaces |->
           [status |-> IF i = WAN1 THEN a.ret ELSE b.ret,
            rate   |-> IF i = WAN1 THEN c.ret ELSE d.ret,
            delay  |-> IF i = WAN1 THEN e.ret.delay ELSE f.ret.delay,
            jitter |-> IF i = WAN1 THEN e.ret.jitter ELSE f.ret.jitter,
            loss   |-> IF i = WAN1 THEN e.ret.loss ELSE f.ret.loss]]]

\* the six reads of show_status; the returned value is the table's content
show_status(w) ==
  Then(get_interface_status(w, WAN1), LAMBDA a :
  Then(get_interface_status(a, WAN2), LAMBDA b :
  Then(get_htb_rate(b, WAN1), LAMBDA c :
  Then(get_htb_rate(c, WAN2), LAMBDA d :
  Then(get_netem_params(d, WAN1), LAMBDA e :
  Then(get_netem_params(e, WAN2), LAMBDA f :
    [f EXCEPT !.ret =
        [i \in Ifaces |->
           [status |-> IF i = WAN1 THEN a.ret ELSE b.ret,
            rate   |-> IF i = WAN1 THEN c.ret ELSE d.ret,
            delay  |-> IF i = WAN1 THEN e.ret.delay ELSE f.ret.delay,
            jitter |-> IF i = WAN1 THEN e.ret.jitter ELSE f.ret.jitter,
            loss   |-> IF i = WAN1 THEN e.ret.loss ELSE f.ret.loss]]]))))))

\* ------------------------------------------------------------ state machine
\* longest run of identical consecutive calls that is recorded
MaxRun == 2

\* what a succeeding tc / ip command that lists nothing may print on
\* stdout+stderr: nothing, or a warning line
Outputs == { << >>, << <<"Warning:", "quantum", "is", "big">> >> }

World(b, env) == [be |-> b, log |-> << >>, env |-> env, fail |-> {}, ret |-> PyNone]

\* the same with commands of the kinds in fail failing
FaultyWorld(b, env, fail) == [World(b, env) EXCEPT !.fail = fail]

\* the table show_status prints for backend b
Snapshot(b) == show_status(World(b, << >>)).ret

CleanBackend == [i \in Ifaces |-> CleanIface]

\* no listing has been handed over
NoListing ==
  [kind |-> "qdisc", line |-> << >>, done |-> FALSE, imp |-> ZeroParams,
   rate |-> "no limit"]

\* a session that runs nothing
IdleSession ==
  [pc |-> "idle", started |-> FALSE, delay |-> None, jitter |-> None, loss |-> None,
   bandwidth |-> None, stale |-> FALSE]

NoSessions ==
  [A |-> IdleSession, B |-> IdleSession, start |-> CleanBackend, env |-> << >>,
   delay |-> None, rate |-> None, overlap |-> FALSE, first |-> "-"]

Init ==
  /\ rd = NoListing
  /\ ses = NoSessions
  /\ be = CleanBackend
  /\ last = [op |-> "start", args |-> << >>, pre |-> CleanBackend, log |-> << >>,
             n |-> 0, origin |-> CleanBackend, fail |-> {}, ret |-> PyNone,
             shown |-> Snapshot(CleanBackend)]

\* record operation op(args), which turned the world into w, returned w.ret
\* to its caller and was followed by the printing of the table shown
Note(op, args, w, shown) ==
  LET again == last.op = op /\ last.args = args /\ last.n < MaxRun
  IN /\ last' = [op |-> op, args |-> args, pre |-> be, log |-> w.log,
                 n |-> IF again THEN last.n + 1 ELSE 1,
                 origin |-> IF again THEN last.origin ELSE be,
                 fail |-> w.fail, ret |-> w.ret, shown |-> shown]
     /\ UNCHANGED <<rd, ses>>

\* the same for an operation that is not followed by show_status
Record(op, args, w) == Note(op, args, w, last.shown)

\* one pass of the loop of main for a choice other than '8': the action, then
\* show_status
Menu(op, w) ==
  /\ be' = show_status(w).be
  /\ Note(op, << >>, w, show_status(w).ret)

ToggleLatencyPrimary ==
  \E env \in Outputs : Menu("toggle_latency_wan1", toggle_latency_wan1(World(be, env)))

TogglePacketLossSecondary ==
  \E env \in Outputs :
     Menu("toggle_packet_loss_wan2", toggle_packet_loss_wan2(World(be, env)))

ToggleJitterSecondary ==
  \E env \in Outputs : Menu("toggle_jitter_wan2", toggle_jitter_wan2(World(be, env)))

ToggleBandwidthPrimary ==
  \E env \in Outputs :
     Menu("toggle_bandwidth_wan1", toggle_bandwidth_wan1(World(be, env)))

ToggleLinkStatusSecondary ==
  \E env \in Outputs :
     Menu("toggle_interface_status_wan2", toggle_interface_status_wan2(World(be, env)))

RestoreDefaults ==
  \E env \in Outputs : Menu("restore_defaults", restore_defaults(World(be, env)))

CleanUp == \E env \in Outputs : Menu("clean_up", clean_up(World(be, env)))

\* choice '8'
ShowStatus ==
  LET w == show_status(World(be, << >>))
  IN be' = w.be /\ Note("show_status", << >>, [w EXCEPT !.ret = PyNone], w.ret)

Next ==
  \/ ToggleLatencyPrimary
  \/ TogglePacketLossSecondary
  \/ ToggleJitterSecondary
  \/ ToggleBandwidthPrimary
  \/ ToggleLinkStatusSecondary
  \/ RestoreDefaults
  \/ CleanUp
  \/ ShowStatus

Spec == Init /\ [][Next]_vars

\* ---- the Mutator called directly, with arguments of the caller's choice,
\* on one interface at a time (the other one is left clean)
Delays == {"30ms", "200ms"}

Jitters == {"10ms", "1s"}

Losses == {"5%"}

Rates == {"10mbit", "50mbit"}

OthersClean(i) == \A o \in Ifaces \ {i} : be[o] = CleanIface

CallSetNetem ==
  \E i \in Ifaces, d \in Delays \cup {None}, j \in Jitters \cup {None},
     l \in Losses \cup {None}, env \in Outputs :
     LET w == set_netem(World(be, env), i, d, j, l)
     IN /\ OthersClean(i)
        /\ be' = w.be
        /\ Record("set_netem", <<i, d, j, l>>, w)

CallSetHtbRate ==
  \E i \in Ifaces, r \in Rates, env \in Outputs :
     LET w == set_htb_rate(World(be, env), i, r)
     IN /\ OthersClean(i)
        /\ be' = w.be
        /\ Record("set_htb_rate", <<i, r>>, w)

CallCleanUp ==
  \E env \in Outputs :
     LET w == clean_up(World(be, env))
     IN be' = w.be /\ Record("clean_up", << >>, w)

NextMut == CallSetNetem \/ CallSetHtbRate \/ CallCleanUp

SpecMut == Init /\ [][NextMut]_vars

\* ------------------------------------------------------------ observations
ReadRate(b, i) == get_htb_rate(World(b, << >>), i).ret

ReadImpairment(b, i) == get_netem_params(World(b, << >>), i).ret

\* the commands of kind k the last operation issued
Issued(k) == {n \in 1..Len(last.log) : last.log[n].kind = k}

\* the interface's shaping hierarchy is in place: root, class and emulation rule
Shaped(s) == s.htb /\ s.cls /\ s.netem

\* ------------------------------------------------------------------ claims
BinaryToggles ==
  {"toggle_latency_wan1", "toggle_packet_loss_wan2", "toggle_bandwidth_wan1",
   "toggle_interface_status_wan2"}

ToggledIface(op) ==
  IF op \in {"toggle_latency_wan1", "toggle_bandwidth_wan1"} THEN WAN1 ELSE WAN2

\* C1 as stated: after latency, loss, bandwidth or link-status toggle has been
\* applied twice in a row, the toggled interface shows the snapshot it showed
\* before the first application, whatever state the run started in.
C1_ToggleTwiceRestoresAlways ==
  (last.op \in BinaryToggles /\ last.n = 2)
    => Snapshot(be)[ToggledIface(last.op)] = Snapshot(last.origin)[ToggledIface(last.op)]

\* C1 amended: the same, for a run of two that started with the toggled
\* interface's shaping hierarchy in place (any state for the link-status toggle).
C1_ToggleTwiceRestoresShaped ==
  (/\ last.op \in BinaryToggles
   /\ last.n = 2
   /\ (last.op = "toggle_interface_status_wan2"
       \/ Shaped(last.origin[ToggledIface(last.op)])))
    => Snapshot(be)[ToggledIface(last.op)] = Snapshot(last.origin)[ToggledIface(last.op)]

C1_Witness ==
  /\ last.op = "toggle_packet_loss_wan2"
  /\ last.n = 2
  /\ Shaped(last.origin[WAN2])
  /\ last.origin[WAN2].jitter = "10ms"
  /\ last.origin[WAN2].loss = "5%"
  /\ last.pre[WAN2].loss = "0%"
  /\ be[WAN2].loss = "5%"

\* C2: set_netem leaves the rate readRate returned before it; when no rate was
\* set, the rebuild installs the interface's default bandwidth.
C2_RatePreservedUnderImpairment ==
  last.op = "set_netem"
    => ReadRate(be, last.args[1])
         = IF ReadRate(last.pre, last.args[1]) # "no limit"
           THEN ReadRate(last.pre, last.args[1])
           ELSE DEFAULT_PARAMS[last.args[1]].bandwidth

\* the rebuild path, on the primary interface holding the rate 50mbit, which is
\* not its default, with new delay, jitter and loss
C2_Witness ==
  /\ last.op = "set_netem"
  /\ last.args = <<WAN1, "200ms", "10ms", "5%">>
  /\ ReadRate(last.pre, WAN1) = "50mbit"
  /\ ReadImpairment(last.pre, WAN1).delay = "30ms"
  /\ Issued("class_add") # {}
  /\ ReadRate(be, WAN1) = "50mbit"
  /\ ReadImpairment(be, WAN1).delay = "200ms"

\* the delay, jitter and loss the backend holds for the interface's emulation rule
RuleOf(s) == [delay |-> s.delay, jitter |-> s.jitter, loss |-> s.loss, err |-> FALSE]

\* C3: when the interface's emulation rule holds delay d, jitter j and loss l,
\* readImpairment returns d, j and l after set_htb_rate, on the in-place path
\* and on the rebuild path.
C3_ImpairmentPreservedUnderRate ==
  (last.op = "set_htb_rate" /\ last.pre[last.args[1]].netem)
    => ReadImpairment(be, last.args[1]) = RuleOf(last.pre[last.args[1]])

CleanSnapshot ==
  [status |-> "UP", rate |-> "no limit", delay |-> "0ms", jitter |-> "0ms", loss |-> "0%"]

\* C4: after clean_up both interfaces read "no limit", (0ms, 0ms, 0%) and UP,
\* also an interface that had no hierarchy to delete.
C4_CleanUpClearsEverything ==
  last.op = "clean_up" => \A i \in Ifaces : Snapshot(be)[i] = CleanSnapshot

\* the secondary was down with no hierarchy, the primary was shaped
C4_Witness ==
  /\ last.op = "clean_up"
  /\ ~last.pre[WAN2].htb
  /\ last.pre[WAN2].link = "DOWN"
  /\ Shaped(last.pre[WAN1])
  /\ last.pre[WAN1].delay = "200ms"
  /\ be[WAN2].link = "UP"

DefaultSnapshot ==
  [i \in Ifaces |->
     [status |-> "UP", rate |-> DEFAULT_PARAMS[i].bandwidth,
      delay |-> DEFAULT_PARAMS[i].delay, jitter |-> DEFAULT_PARAMS[i].jitter,
      loss |-> DEFAULT_PARAMS[i].loss]]

\* C5: after restore_defaults the snapshot is each interface's default profile
\* with the link UP, and a second restore_defaults shows the snapshot of the first.
C5_RestoreDefaultsIdempotent ==
  /\ last.op = "restore_defaults" => Snapshot(be) = DefaultSnapshot
  /\ (last.op = "restore_defaults" /\ last.n = 2) => Snapshot(be) = Snapshot(last.pre)

\* two in a row, started with both interfaces shaped away from their defaults
\* and the secondary down
C5_Witness ==
  /\ last.op = "restore_defaults"
  /\ last.n = 2
  /\ last.origin[WAN1].rate = "10mbit"
  /\ last.origin[WAN1].delay = "200ms"
  /\ last.origin[WAN2].loss = "5%"
  /\ last.origin[WAN2].link = "DOWN"
  /\ Snapshot(last.pre) = DefaultSnapshot

\* C6 as stated: what the secondary interface showed before restore_defaults
\* is what it shows after it.
C6_SecondaryKeptByRestore ==
  last.op = "restore_defaults" => Snapshot(be)[WAN2] = Snapshot(last.pre)[WAN2]

SnapshotFields == {"status", "rate", "delay", "jitter", "loss"}

\* C6 amended: restore_defaults rebuilds the secondary interface too; a value
\* the secondary showed before the call is shown after it exactly when it is
\* the value of the secondary's default profile (link UP).
C6_SecondaryKeptOnlyWhereDefault ==
  last.op = "restore_defaults"
    => \A f \in SnapshotFields :
          (Snapshot(be)[WAN2][f] = Snapshot(last.pre)[WAN2][f])
            <=> (Snapshot(last.pre)[WAN2][f] = DefaultSnapshot[WAN2][f])

\* the secondary had jitter 10ms and loss 5% and was down; the primary was clean
C6_Witness ==
  /\ last.op = "restore_defaults"
  /\ last.pre[WAN1] = CleanIface
  /\ Snapshot(last.pre)[WAN2]
       = [status |-> "DOWN", rate |-> "50mbit", delay |-> "30ms",
          jitter |-> "10ms", loss |-> "5%"]
  /\ Snapshot(be)[WAN2] = DefaultSnapshot[WAN2]

\* C7: on an interface with no hierarchy, set_netem(i, d, j, l) called once or
\* twice in a row makes readImpairment return (d, j, l).
C7_SetImpairmentTwiceReadsBack ==
  (/\ last.op = "set_netem"
   /\ last.n \in {1, 2}
   /\ last.origin[last.args[1]] = CleanIface
   /\ None \notin {last.args[2], last.args[3], last.args[4]})
    => ReadImpairment(be, last.args[1])
         = [delay |-> last.args[2], jitter |-> last.args[3], loss |-> last.args[4],
            err |-> FALSE]

\* C8: toggle_latency_wan1 on a primary with delay 0ms gives delay 200ms with
\* the rate it had, or 100mbit if it had none; the next toggle_latency_wan1
\* gives delay 0ms with that rate.
C8_LatencyToggleScenario ==
  /\ (/\ last.op = "toggle_latency_wan1"
      /\ ReadImpairment(last.pre, WAN1).delay = "0ms")
       => /\ ReadImpairment(be, WAN1).delay = "200ms"
          /\ ReadRate(be, WAN1)
               = IF ReadRate(last.pre, WAN1) = "no limit"
                 THEN DEFAULT_PARAMS[WAN1].bandwidth
                 ELSE ReadRate(last.pre, WAN1)
  /\ (/\ last.op = "toggle_latency_wan1"
      /\ last.n = 2
      /\ ReadImpairment(last.origin, WAN1).delay = "0ms")
       => /\ ReadImpairment(be, WAN1).delay = "0ms"
          /\ ReadRate(be, WAN1) = ReadRate(last.pre, WAN1)
          /\ ReadRate(be, WAN1)
               = IF ReadRate(last.origin, WAN1) = "no limit"
                 THEN DEFAULT_PARAMS[WAN1].bandwidth
                 ELSE ReadRate(last.origin, WAN1)

\* two latency toggles in a row from the clean state
C8_Witness ==
  /\ last.op = "toggle_latency_wan1"
  /\ last.n = 2
  /\ last.origin = CleanBackend
  /\ ReadImpairment(last.pre, WAN1).delay = "200ms"
  /\ Snapshot(be)[WAN1]
       = [status |-> "UP", rate |-> "100mbit", delay |-> "0ms", jitter |-> "0ms",
          loss |-> "0%"]

ConsumerOps ==
  {"toggle_latency_wan1", "toggle_packet_loss_wan2", "toggle_jitter_wan2",
   "toggle_bandwidth_wan1", "toggle_interface_status_wan2", "restore_defaults",
   "clean_up"}

\* actions[choice]() for the seven choices that change something
Apply(op, w) ==
  CASE op = "toggle_latency_wan1" -> toggle_latency_wan1(w)
    [] op = "toggle_packet_loss_wan2" -> toggle_packet_loss_wan2(w)
    [] op = "toggle_jitter_wan2" -> toggle_jitter_wan2(w)
    [] op = "toggle_bandwidth_wan1" -> toggle_bandwidth_wan1(w)
    [] op = "toggle_interface_status_wan2" -> toggle_interface_status_wan2(w)
    [] op = "restore_defaults" -> restore_defaults(w)
    [] op = "clean_up" -> clean_up(w)

RebuildKinds == {"qdisc_add_root", "class_add", "netem_add"}

\* one of the seven operations with the commands of one kind of the rebuild
\* sequence failing
FaultyOperation ==
  \E op \in ConsumerOps, k \in RebuildKinds :
     Menu(op, Apply(op, FaultyWorld(be, << >>, {k})))

NextFault == FaultyOperation \/ RestoreDefaults \/ CleanUp

SpecFault == Init /\ [][NextFault]_vars

\* a command of the rebuild sequence failed during the last operation
RebuildFailed ==
  \E n \in 1..Len(last.log) : last.log[n].kind \in RebuildKinds /\ ~last.log[n].ok

\* what every operation returns when nothing failed
ReturnedOnSuccess == PyNone

\* C11: an operation during which a command of the rebuild sequence (create
\* root, create class, attach emulation rule) failed returns a result that
\* tells its caller so, one that differs from the result of a successful run.
C11_RebuildFailureReported ==
  (last.op \in ConsumerOps /\ RebuildFailed) => last.ret # ReturnedOnSuccess

\* ---- the State Reader on any text a listing may hold
\* most tokens of a line
MaxTokens == 5

\* the words a line of tc qdisc show / tc class show is made of here
Tokens(kind) ==
  IF kind = "qdisc" THEN {"netem", "delay", "loss", "10ms", "1s", "5%"}
  ELSE {"class", "htb", "1:10", "rate", "50mbit"}

InitParse ==
  /\ be = CleanBackend
  /\ last = [op |-> "start", args |-> << >>, pre |-> CleanBackend, log |-> << >>,
             n |-> 0, origin |-> CleanBackend, fail |-> {}, ret |-> PyNone,
             shown |-> Snapshot(CleanBackend)]
  /\ rd \in {[NoListing EXCEPT !.kind = k] : k \in {"qdisc", "class"}}
  /\ ses = NoSessions

\* the listing's line grows by one token
AppendToken ==
  /\ ~rd.done
  /\ Len(rd.line) < MaxTokens
  /\ \E tok \in Tokens(rd.kind) : rd' = [rd EXCEPT !.line = Append(rd.line, tok)]
  /\ UNCHANGED <<be, last, ses>>

\* the query succeeds with the line as its output and the reader parses it
ReadListing ==
  /\ ~rd.done
  /\ rd.line # << >>
  /\ rd' = [rd EXCEPT
              !.done = TRUE,
              !.imp = IF rd.kind = "qdisc"
                      THEN ParseNetem([ok |-> TRUE, text |-> <<rd.line>>])
                      ELSE rd.imp,
              !.rate = IF rd.kind = "class"
                       THEN ParseRate([ok |-> TRUE, text |-> <<rd.line>>])
                       ELSE rd.rate]
  /\ UNCHANGED <<be, last, ses>>

NextParse == AppendToken \/ ReadListing

SpecParse == InitParse /\ [][NextParse]_vars

\* C12: whatever tokens the line of a successful listing holds, the reader
\* raises no error: get_netem_params returns a delay, a jitter and a loss, and
\* get_htb_rate returns a rate or "no limit".
C12_ReaderNeverRaises ==
  rd.done
    => /\ ~rd.imp.err
       /\ Unset \notin {rd.imp.delay, rd.imp.jitter, rd.imp.loss}
       /\ rd.rate # RateError

\* C14: show_status issues query commands only, and the backend state of both
\* interfaces after it is the state before it.
C14_ShowStatusReadOnly ==
  last.op = "show_status"
    => /\ be = last.pre
       /\ \A n \in 1..Len(last.log) : IsQuery(last.log[n])

\* the table was printed for two shaped interfaces, the secondary one down
C14_Witness ==
  /\ last.op = "show_status"
  /\ Len(last.log) = 6
  /\ Shaped(last.pre[WAN1]) /\ last.pre[WAN1].delay = "200ms"
  /\ Shaped(last.pre[WAN2]) /\ last.pre[WAN2].loss = "5%"
  /\ last.pre[WAN2].link = "DOWN"
  /\ last.shown[WAN2].status = "DOWN"
  /\ be = last.pre

ChangeKinds == {"netem_change", "class_change"}

\* the commands of setup_qdiscs
SetupKinds == {"qdisc_del_root", "qdisc_add_root", "class_add", "netem_add"}

\* C15: when the in-place change command of set_netem or set_htb_rate
\* succeeded, the call issues no delete-hierarchy and no create command; and no
\* call runs the rebuild sequence more than once.
C15_RebuildOnlyAfterFailedChange ==
  last.op \in {"set_netem", "set_htb_rate"}
    => /\ (\E n \in 1..Len(last.log) : last.log[n].kind \in ChangeKinds /\ last.log[n].ok)
            => \A n \in 1..Len(last.log) : last.log[n].kind \notin SetupKinds
       /\ \A k \in SetupKinds : Cardinality(Issued(k)) <= 1

Toggles == BinaryToggles \cup {"toggle_jitter_wan2"}

\* the query a toggle reads its interface's state with
QueryOf(op) ==
  CASE op = "toggle_bandwidth_wan1" -> "class_show"
    [] op = "toggle_interface_status_wan2" -> "link_show"
    [] OTHER -> "qdisc_show"

\* the Mutator operation a toggle calls
MutatorOf(op) ==
  CASE op = "toggle_bandwidth_wan1" -> "set_htb_rate"
    [] op = "toggle_interface_status_wan2" -> "set_interface_status"
    [] OTHER -> "set_netem"

MutatorOps == {"set_netem", "set_htb_rate", "set_interface_status"}

\* the places in the last operation's trace where a Mutator operation is entered
MutatorCalls == {n \in 1..Len(last.log) : last.log[n].kind \in MutatorOps}

\* C16: a toggle enters exactly one Mutator operation, the one for its kind of
\* state on its interface, and before that call it has issued exactly one
\* command: the query for that state of that interface.
C16_ToggleReadsOnceCallsOnce ==
  last.op \in Toggles
    => /\ MutatorCalls = {2}
       /\ last.log[2].kind = MutatorOf(last.op)
       /\ last.log[2].dev = ToggledIface(last.op)
       /\ last.log[1].kind = QueryOf(last.op)
       /\ last.log[1].dev = ToggledIface(last.op)

\* the bandwidth toggle on the rebuild path: one read, one call of set_htb_rate,
\* and the queries and commands of set_htb_rate after it
C16_Witness ==
  /\ last.op = "toggle_bandwidth_wan1"
  /\ MutatorCalls = {2}
  /\ last.log[1].kind = "class_show"
  /\ Len(last.log) > 4
  /\ Issued("class_add") # {}
  /\ last.pre[WAN1].rate = "100mbit"
  /\ be[WAN1].rate = "10mbit"

OtherIface(i) == IF i = WAN1 THEN WAN2 ELSE WAN1

\* C19: every query and command of a toggle names the toggle's own interface,
\* and the backend state of the other interface is left as it was.
C19_ToggleTouchesOwnInterface ==
  last.op \in Toggles
    => /\ \A n \in 1..Len(last.log) : last.log[n].dev = ToggledIface(last.op)
       /\ be[OtherIface(ToggledIface(last.op))] = last.pre[OtherIface(ToggledIface(last.op))]

\* the loss toggle rebuilt the secondary interface while the primary one was
\* shaped with a delay
C19_Witness ==
  /\ last.op = "toggle_packet_loss_wan2"
  /\ Issued("qdisc_del_root") # {}
  /\ be[WAN2] # last.pre[WAN2]
  /\ Shaped(last.pre[WAN1])
  /\ last.pre[WAN1].delay = "200ms"
  /\ be[WAN1] = last.pre[WAN1]

\* C20: with every command succeeding, the table printed after each of the
\* seven operations holds, for the primary interface, delay 0ms or 200ms,
\* jitter 0ms, loss 0%, rate "no limit", 100mbit or 10mbit and never the status
\* DOWN, and for the secondary interface, delay 0ms or 30ms, jitter 0ms, 1ms or
\* 10ms, loss 0% or 5% and rate "no limit" or 50mbit; and no operation issues
\* a link-down command for the primary interface.
C20_ValuesStayInFiniteSets ==
  /\ last.shown = Snapshot(be)
  /\ last.shown[WAN1].delay \in {"0ms", "200ms"}
  /\ last.shown[WAN1].jitter = "0ms"
  /\ last.shown[WAN1].loss = "0%"
  /\ last.shown[WAN1].rate \in {"no limit", "100mbit", "10mbit"}
  /\ last.shown[WAN1].status = "UP"
  /\ be[WAN1].link = "UP"
  /\ last.shown[WAN2].delay \in {"0ms", "30ms"}
  /\ last.shown[WAN2].jitter \in {"0ms", "1ms", "10ms"}
  /\ last.shown[WAN2].loss \in {"0%", "5%"}
  /\ last.shown[WAN2].rate \in {"no limit", "50mbit"}
  /\ \A n \in 1..Len(last.log) :
        last.log[n].kind = "link_set" /\ last.log[n].dev = WAN1
          => last.log[n].args = <<"up">>

\* every non-default value at once, reached through the link toggle
C20_Witness ==
  /\ last.op = "toggle_interface_status_wan2"
  /\ last.shown[WAN1].delay = "200ms"
  /\ last.shown[WAN1].rate = "10mbit"
  /\ last.shown[WAN2].jitter = "10ms"
  /\ last.shown[WAN2].loss = "5%"
  /\ last.shown[WAN2].status = "DOWN"

\* ---- the menu with a backend whose queries may fail and whose links change
\* state on their own
QueryKinds == {"qdisc_show", "class_show", "link_show"}

\* the states ip link show is given to report
LinkStates == {"UP", "DOWN", "DORMANT"}

\* choice '8' with the queries of some kinds failing
FaultyShowStatus ==
  \E fail \in SUBSET QueryKinds :
     LET w == show_status(FaultyWorld(be, << >>, fail))
     IN be' = w.be /\ Note("show_status", << >>, [w EXCEPT !.ret = PyNone], w.ret)

\* choice '5' with the link query failing or not
FaultyLinkToggle ==
  \E fail \in {{}, {"link_show"}}, env \in Outputs :
     Menu("toggle_interface_status_wan2",
          toggle_interface_status_wan2(FaultyWorld(be, env, fail)))

\* the kernel reports another state for a link
LinkStateChange ==
  \E i \in Ifaces, st \in LinkStates :
     /\ be[i].link # st
     /\ be' = [be EXCEPT ![i].link = st]
     /\ Note("link_state_change", <<i, st>>, World(be, << >>), last.shown)

NextRead ==
  \/ FaultyShowStatus
  \/ FaultyLinkToggle
  \/ LinkStateChange
  \/ ToggleLatencyPrimary
  \/ TogglePacketLossSecondary
  \/ RestoreDefaults
  \/ CleanUp

SpecRead == Init /\ [][NextRead]_vars

\* C13: a failed query is read as the default and show_status still returns:
\* (0ms, 0ms, 0%) for a failed tc qdisc show, "no limit" for a failed tc class
\* show, UNKNOWN for a failed ip link show, and UNKNOWN also for a link state
\* that is neither UP nor DOWN.
C13_FailedQueryReadsDefault ==
  last.op = "show_status"
    => /\ last.ret = PyNone
       /\ \A i \in Ifaces :
            /\ "qdisc_show" \in last.fail
                 => /\ last.shown[i].delay = "0ms"
                    /\ last.shown[i].jitter = "0ms"
                    /\ last.shown[i].loss = "0%"
            /\ "class_show" \in last.fail => last.shown[i].rate = "no limit"
            /\ "link_show" \in last.fail => last.shown[i].status = "UNKNOWN"
            /\ last.pre[i].link \notin {"UP", "DOWN"} => last.shown[i].status = "UNKNOWN"

\* every query fails on two shaped interfaces, one up and one down
C13_Witness ==
  /\ last.op = "show_status"
  /\ last.fail = QueryKinds
  /\ Shaped(last.pre[WAN1]) /\ last.pre[WAN1].delay = "200ms"
  /\ Shaped(last.pre[WAN2]) /\ last.pre[WAN2].loss = "5%"
  /\ last.pre[WAN1].link = "UP"
  /\ last.pre[WAN2].link = "DOWN"
  /\ \A i \in Ifaces :
        last.shown[i] = [status |-> "UNKNOWN", rate |-> "no limit", delay |-> "0ms",
                         jitter |-> "0ms", loss |-> "0%"]

\* the link_set commands of the last operation
LinkSets == {n \in 1..Len(last.log) : last.log[n].kind = "link_set"}

\* C17: toggle_interface_status_wan2 issues one link command, for the secondary
\* interface: down when the status it read is UP, up when the status is DOWN,
\* is any other state or could not be read.
C17_LinkToggleFailSafe ==
  last.op = "toggle_interface_status_wan2"
    => /\ Cardinality(LinkSets) = 1
       /\ \A n \in LinkSets :
            /\ last.log[n].dev = WAN2
            /\ last.log[n].args
                 = IF "link_show" \notin last.fail /\ last.pre[WAN2].link = "UP"
                   THEN <<"down">> ELSE <<"up">>
       /\ be[WAN2].link
            = IF "link_show" \notin last.fail /\ last.pre[WAN2].link = "UP"
              THEN "DOWN" ELSE "UP"

\* the link was up but its state could not be read: it is set up, not down
C17_Witness ==
  /\ last.op = "toggle_interface_status_wan2"
  /\ last.fail = {"link_show"}
  /\ last.pre[WAN2].link = "UP"
  /\ \E n \in LinkSets : last.log[n].args = <<"up">>
  /\ be[WAN2].link = "UP"

\* ---- two sessions on the primary interface: one runs set_netem, the other
\* set_htb_rate, and the backend takes their commands one at a time in any order

\* the next command of setup_qdiscs for a session at s.pc
SetupStep(s, w, interface) ==
  CASE s.pc = "del" ->
         [s |-> [s EXCEPT !.pc = "add_root"],
          w |-> subprocess_call(w, Cmd("qdisc_del_root", interface, << >>))]
    [] s.pc = "add_root" ->
         [s |-> [s EXCEPT !.pc = "add_class"],
          w |-> run_command(w, Cmd("qdisc_add_root", interface, << >>))]
    [] s.pc = "add_class" ->
         [s |-> [s EXCEPT !.pc = "add_netem"],
          w |-> run_command(w, Cmd("class_add", interface, <<s.bandwidth>>))]
    [] s.pc = "add_netem" ->
         [s |-> [s EXCEPT !.pc = "done"],
          w |-> run_command(w, Cmd("netem_add", interface, <<s.delay, s.jitter, s.loss>>))]

\* variant of the steps of set_netem whose rebuild always takes the default
\* bandwidth
SetNetemStep_default_rate(s, w, interface) ==
  CASE s.pc = "read" ->
         LET w1 == get_netem_params(w, interface)
             current == w1.ret
         IN [s |-> [s EXCEPT !.pc = "change", !.started = TRUE,
                             !.delay = Or(s.delay, current.delay),
                             !.jitter = Or(s.jitter, current.jitter),
                             !.loss = Or(s.loss, current.loss)],
             w |-> w1]
    [] s.pc = "change" ->
         LET w1 == run_command(w, Cmd("netem_change", interface, <<s.delay, s.jitter, s.loss>>))
         IN [s |-> [s EXCEPT !.pc = IF Not(w1.ret) THEN "rate" ELSE "done"], w |-> w1]
    [] s.pc = "rate" ->
         LET w1 == get_htb_rate(w, interface)
         IN [s |-> [s EXCEPT !.pc = "del",
                             !.bandwidth = DEFAULT_PARAMS[interface].bandwidth],
             w |-> w1]
    [] OTHER -> SetupStep(s, w, interface)

\* the next backend call of set_netem for a session at s.pc
SetNetemStep(s, w, interface) ==
  CASE s.pc = "read" ->
         LET w1 == get_netem_params(w, interface)
             current == w1.ret
         IN [s |-> [s EXCEPT !.pc = "change", !.started = TRUE,
                             !.delay = Or(s.delay, current.delay),
                             !.jitter = Or(s.jitter, current.jitter),
                             !.loss = Or(s.loss, current.loss)],
             w |-> w1]
    [] s.pc = "change" ->
         LET w1 == run_command(w, Cmd("netem_change", interface, <<s.delay, s.jitter, s.loss>>))
         IN [s |-> [s EXCEPT !.pc = IF Not(w1.ret) THEN "rate" ELSE "done"], w |-> w1]
    [] s.pc = "rate" ->
         LET w1 == get_htb_rate(w, interface)
             current_rate == w1.ret
         IN [s |-> [s EXCEPT !.pc = "del",
                             !.bandwidth = IF current_rate # "no limit" THEN current_rate
                                           ELSE DEFAULT_PARAMS[interface].bandwidth],
             w |-> w1]
    [] OTHER -> SetupStep(s, w, interface)

\* the next backend call of set_htb_rate for a session at s.pc
SetHtbRateStep(s, w, interface) ==
  CASE s.pc = "change" ->
         LET w1 == run_command(w, Cmd("class_change", interface, <<s.bandwidth>>))
         IN [s |-> [s EXCEPT !.pc = IF Not(w1.ret) THEN "read" ELSE "done",
                             !.started = TRUE],
             w |-> w1]
    [] s.pc = "read" ->
         LET w1 == get_netem_params(w, interface)
             current_netem == w1.ret
         IN [s |-> [s EXCEPT !.pc = "del", !.delay = current_netem.delay,
                             !.jitter = current_netem.jitter,
                             !.loss = current_netem.loss],
             w |-> w1]
    [] OTHER -> SetupStep(s, w, interface)

Running(s) == s.started /\ s.pc # "done"

\* the session has read a value from the backend that a command it has not
\* issued yet will carry
Holding(op, s) ==
  IF op = "set_netem" THEN s.pc \in {"change", "rate", "del", "add_root", "add_class", "add_netem"}
  ELSE s.pc \in {"del", "add_root", "add_class", "add_netem"}

\* the command just issued in w changed the backend
Mutated(w) == ~IsQuery(w.log[Len(w.log)]) /\ w.log[Len(w.log)].ok

NoSessionRuns == ses.A.pc = "idle" /\ ses.B.pc = "idle"

\* two operators pick their operation at the same time
BeginSessions ==
  \E d \in Delays, r \in Rates, env \in Outputs :
     /\ NoSessionRuns
     /\ ses' = [A |-> [IdleSession EXCEPT !.pc = "read", !.delay = d],
                B |-> [IdleSession EXCEPT !.pc = "change", !.bandwidth = r],
                start |-> be, env |-> env, delay |-> d, rate |-> r,
                overlap |-> FALSE, first |-> "-"]
     /\ last' = [op |-> "begin_sessions", args |-> <<d, r>>, pre |-> be, log |-> << >>,
                 n |-> 1, origin |-> be, fail |-> {}, ret |-> PyNone,
                 shown |-> last.shown]
     /\ UNCHANGED <<be, rd>>

\* the session running set_netem issues its next backend call
StepSetNetem ==
  /\ ses.A.pc \notin {"idle", "done"}
  /\ LET r == SetNetemStep(ses.A, World(be, ses.env), WAN1)
     IN /\ be' = r.w.be
        /\ ses' = [ses EXCEPT !.A = r.s,
                              !.B.stale = @ \/ (Holding("set_htb_rate", ses.B) /\ Mutated(r.w)),
                              !.overlap = @ \/ Running(ses.B),
                              !.first = IF @ = "-" THEN "A" ELSE @]
  /\ UNCHANGED <<last, rd>>

\* the session running set_htb_rate issues its next backend call
StepSetHtbRate ==
  /\ ses.B.pc \notin {"idle", "done"}
  /\ LET r == SetHtbRateStep(ses.B, World(be, ses.env), WAN1)
     IN /\ be' = r.w.be
        /\ ses' = [ses EXCEPT !.B = r.s,
                              !.A.stale = @ \/ (Holding("set_netem", ses.A) /\ Mutated(r.w)),
                              !.overlap = @ \/ Running(ses.A),
                              !.first = IF @ = "-" THEN "B" ELSE @]
  /\ UNCHANGED <<last, rd>>

BothDone == ses.A.pc = "done" /\ ses.B.pc = "done"

\* both operations have returned; the menu is shown again
EndSessions ==
  /\ BothDone
  /\ ses' = NoSessions
  /\ last' = [op |-> "end_sessions", args |-> << >>, pre |-> be, log |-> << >>,
              n |-> 1, origin |-> be, fail |-> {}, ret |-> PyNone,
              shown |-> Snapshot(be)]
  /\ UNCHANGED <<be, rd>>

\* one operator alone at the menu
SingleSession ==
  /\ NoSessionRuns
  /\ \/ ToggleLatencyPrimary
     \/ ToggleBandwidthPrimary
     \/ RestoreDefaults
     \/ CleanUp

NextConc ==
  \/ BeginSessions
  \/ StepSetNetem
  \/ StepSetHtbRate
  \/ EndSessions
  \/ SingleSession

SpecConc == Init /\ [][NextConc]_vars

\* the backend after the two operations run one after the other
SerialNetemThenRate ==
  set_htb_rate(World(set_netem(World(ses.start, ses.env), WAN1, ses.delay, None, None).be,
                     ses.env),
               WAN1, ses.rate).be

SerialRateThenNetem ==
  set_netem(World(set_htb_rate(World(ses.start, ses.env), WAN1, ses.rate).be, ses.env),
            WAN1, ses.delay, None, None).be

\* the rate and impairment read from backend b for the primary interface
Observed(b) == <<ReadRate(b, WAN1), ReadImpairment(b, WAN1)>>

NonSerial ==
  /\ BothDone
  /\ Observed(be) # Observed(SerialNetemThenRate)
  /\ Observed(be) # Observed(SerialRateThenNetem)

\* C18: when set_netem and set_htb_rate on the primary interface do not
\* overlap, the backend ends as after the serial order they ran in; a rate or
\* impairment that differs from both serial orders is found only after
\* overlapping calls in which one operation issued commands carrying a value it
\* read before a change made by the other.
C18_NonSerialOnlyByStaleRead ==
  BothDone
    => /\ (~ses.overlap /\ ses.first = "A") => be = SerialNetemThenRate
       /\ (~ses.overlap /\ ses.first = "B") => be = SerialRateThenNetem
       /\ NonSerial => ses.overlap /\ (ses.A.stale \/ ses.B.stale)

\* the interleaving: set_netem read the rate 100mbit for its rebuild, then
\* set_htb_rate set 50mbit, then the rebuild installed 100mbit again; both
\* serial orders end with 50mbit
C18_Witness ==
  /\ NonSerial
  /\ ses.overlap
  /\ ses.A.stale
  /\ ses.rate = "50mbit"
  /\ ReadRate(ses.start, WAN1) = "100mbit"
  /\ ses.A.bandwidth = "100mbit"
  /\ ReadRate(be, WAN1) = "100mbit"
  /\ ReadRate(SerialNetemThenRate, WAN1) = "50mbit"
  /\ ReadRate(SerialRateThenNetem, WAN1) = "50mbit"
  /\ ReadImpairment(be, WAN1).delay = ses.delay

====
